---- MODULE Spec2Model ----
(***************************************************************************)
(* Input tracking core of the stress detection front end:                  *)
(*   KeyboardTracker   (src/frontend/js/KeyboardTracker.js)                *)
(*   MouseTracker      (src/frontend/js/mouseTracker.js)                   *)
(*   StressVisualization.addMousePoint (src/frontend/js/visualization.js)  *)
(*   StressDetectionApp (src/unnamed/part_000)                             *)
(*                                                                         *)
(* Numbers.  Timestamps are integer milliseconds.  Pointer coordinates are *)
(* drawn from a grid on which every pairwise Euclidean distance is an      *)
(* integer, so Math.sqrt is exact.  Click pressure is kept as a numerator  *)
(* over PressureDen, pressureVariation as a numerator over VarDen.         *)
(* Of the page, the state holds the stress gauge, its text elements and    *)
(* the prediction history; other canvas and DOM updates are left out.      *)
(***************************************************************************)
EXTENDS Integers, Sequences, FiniteSets, TLC

VARIABLES
    app,              \* StressDetectionApp fields
    keyboardTracker,  \* KeyboardTracker fields
    mouseTracker,     \* MouseTracker fields
    visualization,    \* StressVisualization fields
    trackKeyboard,    \* checked state of the #trackKeyboard checkbox
    trackMouse,       \* checked state of the #trackMouse checkbox
    reconnectTimers,  \* pending setTimeout(initializeWebSocket, 5000) callbacks
    sent,             \* messages the open socket has accepted, in order
    now,              \* the clock read by new Date() / Date.now(), in ms
    accepted,         \* number of input events and predictions the handlers have processed
    budget,           \* exploration bound on accepted, fixed by the initial state
    twin,             \* a second run fed the same input events, lifecycle calls and
                      \* random draws but its own predictions: its stress level
                      \* and its two trackers
    snapshot,         \* what the last getStats() calls returned
    sessionState,     \* history: Idle / Active / Paused of the session state machine
    lastOp            \* history: the input listener, lifecycle call or getStats that ran last

vars == <<app, keyboardTracker, mouseTracker, visualization, trackKeyboard,
          trackMouse, reconnectTimers, sent, now, accepted, budget, twin,
          snapshot, sessionState, lastOp>>

----------------------------------------------------------------------------
(* Bounds of the exploration *)

MaxEvents == 2
MaxSystemEvents == 1
MaxTime == 800
RandDen == 2
CapMargin == 2
MaxKeyEvents == 5
MaxFeatureEvents == 4

(* Program constants *)

maxPoints == 1000
MaxLevel == 4
VarDen == 40
maxHistoryPoints == 10
maxHistoryItems == 5

PressureDen == VarDen * RandDen

\* JavaScript null, for the timestamp fields; no timestamp is negative
Null == 0 - 1

(* Inputs *)

KeyInputs ==
    { [key |-> "a", code |-> "KeyA"],
      [key |-> "Backspace", code |-> "Backspace"] }

TypingKeyInputs == { [key |-> "a", code |-> "KeyA"] }

Coords == { <<0, 0>>, <<3, 0>>, <<0, 4>> }

\* pointer positions with three on one line; every pairwise distance is an integer
LineCoords == { <<0, 0>>, <<10, 0>>, <<20, 0>>, <<10, 24>> }

ClickInputs == { [x |-> 3, y |-> 4, button |-> 0] }

WheelInputs == { [deltaX |-> 0, deltaY |-> 100] }

RandomDraws == 0 .. (RandDen - 1)

Levels == 0 .. MaxLevel

TickSteps == { 800 }

TypingTickSteps == { 200, 640, 700 }

ClickTickSteps == { 400 }

ClickCoords == { <<3, 0>> }

----------------------------------------------------------------------------
(* Pure helpers *)

\* Date.prototype.toISOString: the instant split into the fields of the string
ToISOString(t) ==
    [sec |-> t \div 1000, ms |-> t % 1000]

\* new Date(isoString), as milliseconds
ParseDate(iso) ==
    iso.sec * 1000 + iso.ms

\* Math.sqrt on the squared lengths the grid produces
Sqrt(n) ==
    CHOOSE r \in 0 .. n : r * r <= n /\ (r + 1) * (r + 1) > n

\* Math.sqrt(dx * dx + dy * dy)
Distance(p, q) ==
    Sqrt((q[1] - p[1]) * (q[1] - p[1]) + (q[2] - p[2]) * (q[2] - p[2]))

\* Math.round(num / den) for num >= 0, den > 0
Round(num, den) ==
    (2 * num + den) \div (2 * den)

\* Math.max
Max(a, b) ==
    IF a >= b THEN a ELSE b

RECURSIVE GCD(_, _)
GCD(a, b) ==
    IF b = 0 THEN a ELSE GCD(b, a % b)

\* a feature value: the fraction num / den (num >= 0, den > 0) in lowest terms
Fraction(num, den) ==
    LET g == GCD(num, den)
    IN  <<num \div g, den \div g>>

\* ws.send(JSON.stringify(data)): an OPEN socket takes the message, a CLOSED
\* one drops it, a CONNECTING one throws InvalidStateError
SendThrows ==
    app.ws = "CONNECTING"

\* variant: the data is queued for the channel whatever the socket's state
SendQueued(data) ==
    Append(sent, data)

Send(data) ==
    IF app.ws = "OPEN" THEN Append(sent, data) ELSE sent

----------------------------------------------------------------------------
(* Rendering sink: the gauge, the text elements next to it, the history     *)
(* chart and the history list.  A confidence is a numerator over ConfDen.   *)

ConfDen == 1000

\* the confidence of the updateStressGauge(0, 0.85) calls
DefaultConfidence == 850

stressLevels ==
    <<"CALM", "MILD STRESS", "MODERATE STRESS", "HIGH STRESS", "EXTREME STRESS">>

historyLevels ==
    <<"Calm", "Mild Stress", "Moderate Stress", "High Stress", "Extreme Stress">>

\* toLocaleTimeString([], {hour, minute}): the minute the clock is in
TimeLabel(t) ==
    t \div 60000

\* updateStressGauge(levelIndex, confidence): drawGauge(levelIndex / 4) and the
\* two text elements
updateStressGauge(viz, levelIndex, confidence) ==
    [viz EXCEPT !.gauge = Fraction(levelIndex, MaxLevel),
                !.stressLevelText = stressLevels[levelIndex + 1],
                !.stressConfidence = Round(confidence * 100, ConfDen)]

\* addStressRecord(level, confidence): the chart keeps the last
\* maxHistoryPoints levels, addToHistoryList the newest maxHistoryItems items
addStressRecord(viz, level, confidence) ==
    LET pushed == Append(viz.historyData, level)
        item == [time |-> TimeLabel(now), level |-> historyLevels[level + 1],
                 confidence |-> Round(confidence * 100, ConfDen)]
        inserted == <<item>> \o viz.historyList
    IN  [viz EXCEPT
           !.historyData =
              IF Len(pushed) > maxHistoryPoints THEN Tail(pushed) ELSE pushed,
           !.historyList =
              IF Len(inserted) > maxHistoryItems
                THEN SubSeq(inserted, 1, maxHistoryItems) ELSE inserted]

\* the page before any handler has run; initializeUI() ends with
\* updateStressGauge(0, 0.85)
InitialVisualization ==
    updateStressGauge(
        [mousePoints |-> <<>>, gauge |-> <<0, 1>>, stressLevelText |-> "",
         stressConfidence |-> 0, stressScore |-> 0, historyData |-> <<>>,
         historyList |-> <<>>, connectionStatus |-> ""],
        0, DefaultConfidence)

\* the text of the connectionStatus element
updateConnectionStatus(viz, connected) ==
    [viz EXCEPT !.connectionStatus =
        IF connected THEN "Connected" ELSE "Not Connected"]

----------------------------------------------------------------------------
(* Initial states *)

SocketStates == {"CONNECTING", "OPEN", "CLOSED"}

\* The fields the constructors set, with the socket in state w (CLOSED has its
\* reconnect timer pending) and b input events to explore
Constructed(w, b) ==
    /\ app = [ws |-> w, isConnected |-> (w = "OPEN"), isMonitoring |-> FALSE,
              sessionStartTime |-> Null, currentStressLevel |-> 0,
              stressConfidence |-> 0]
    /\ keyboardTracker = [keyEvents |-> <<>>, sessionStartTime |-> Null,
                          isTracking |-> FALSE, lastKeyPressTime |-> Null,
                          backspaceCount |-> 0, totalKeyPresses |-> 0]
    /\ mouseTracker = [mouseEvents |-> <<>>, isTracking |-> FALSE,
                       lastMousePosition |-> <<0, 0>>, lastMouseMoveTime |-> Null,
                       clickCount |-> 0, totalDistance |-> 0,
                       simulatedPressure |-> PressureDen, pressureVariation |-> 0]
    /\ visualization =
         IF w = "OPEN" THEN updateConnectionStatus(InitialVisualization, TRUE)
         ELSE IF w = "CLOSED" THEN updateConnectionStatus(InitialVisualization, FALSE)
         ELSE InitialVisualization
    /\ trackKeyboard = TRUE
    /\ trackMouse = TRUE
    /\ reconnectTimers = (IF w = "CLOSED" THEN 1 ELSE 0)
    /\ sent = <<>>
    /\ now = 0
    /\ accepted = 0
    /\ budget = b
    /\ twin = [currentStressLevel |-> app.currentStressLevel,
               keyboardTracker |-> keyboardTracker, mouseTracker |-> mouseTracker]
    /\ snapshot = Null
    /\ sessionState = "Idle"
    /\ lastOp = "init"

\* after new StressDetectionApp(): the socket is still connecting
Init ==
    Constructed("CONNECTING", MaxSystemEvents)

----------------------------------------------------------------------------
(* KeyboardTracker *)

KeyDownData(k) ==
    [type |-> "keyboard", key |-> k.key, code |-> k.code,
     timestamp |-> ToISOString(now), eventType |-> "keydown",
     pressure |-> PressureDen]

KeyUpData(k) ==
    [type |-> "keyboard", key |-> k.key, code |-> k.code,
     timestamp |-> ToISOString(now), eventType |-> "keyup"]

IsBackspace(k) ==
    k.key = "Backspace" \/ k.key = "Delete"

\* the fields the keydown listener writes once past its isTracking test
KeyDownEffect(kt, k) ==
    [kt EXCEPT
       !.keyEvents = Append(@, KeyDownData(k)),
       !.totalKeyPresses = @ + 1,
       !.backspaceCount = IF IsBackspace(k) THEN @ + 1 ELSE @]

\* the same keydown delivered to the second run
TwinKeyDown(k) ==
    [twin EXCEPT !.keyboardTracker =
       IF @.isTracking THEN KeyDownEffect(@, k) ELSE @]

\* what the keydown listener does once past its isTracking test
KeyDownRecord(k) ==
    /\ keyboardTracker' = KeyDownEffect(keyboardTracker, k)
    /\ sent' = Send(KeyDownData(k))
    /\ accepted' = accepted + 1

\* variant: the keydown listener without its isTracking test
KeyDownUngated(k) ==
    /\ lastOp' = "keydown"
    /\ accepted < budget
    /\ KeyDownRecord(k)
    /\ twin' = TwinKeyDown(k)
    /\ UNCHANGED <<app, mouseTracker, visualization, trackKeyboard, trackMouse,
                   reconnectTimers, now, budget, snapshot, sessionState>>

KeyDown(k) ==
    /\ lastOp' = "keydown"
    /\ IF ~keyboardTracker.isTracking
         THEN UNCHANGED <<keyboardTracker, sent, accepted>>
         ELSE accepted < budget /\ KeyDownRecord(k)
    /\ twin' = TwinKeyDown(k)
    /\ UNCHANGED <<app, mouseTracker, visualization, trackKeyboard, trackMouse,
                   reconnectTimers, now, budget, snapshot, sessionState>>

\* variant: a key release is counted as a key press
KeyUpEffectCounting(kt, k) ==
    [kt EXCEPT !.keyEvents = Append(@, KeyUpData(k)),
               !.totalKeyPresses = @ + 1]

KeyUpEffect(kt, k) ==
    [kt EXCEPT !.keyEvents = Append(@, KeyUpData(k))]

TwinKeyUp(k) ==
    [twin EXCEPT !.keyboardTracker =
       IF @.isTracking THEN KeyUpEffect(@, k) ELSE @]

KeyUpRecord(k) ==
    /\ keyboardTracker' = KeyUpEffect(keyboardTracker, k)
    /\ sent' = Send(KeyUpData(k))
    /\ accepted' = accepted + 1

KeyUp(k) ==
    /\ lastOp' = "keyup"
    /\ IF ~keyboardTracker.isTracking
         THEN UNCHANGED <<keyboardTracker, sent, accepted>>
         ELSE accepted < budget /\ KeyUpRecord(k)
    /\ twin' = TwinKeyUp(k)
    /\ UNCHANGED <<app, mouseTracker, visualization, trackKeyboard, trackMouse,
                   reconnectTimers, now, budget, snapshot, sessionState>>

KeyboardStartTracking(kt) ==
    [kt EXCEPT !.isTracking = TRUE, !.sessionStartTime = now,
               !.keyEvents = <<>>, !.backspaceCount = 0, !.totalKeyPresses = 0]

\* variant: stopTracking() that also drops the buffer
KeyboardStopTrackingClears(kt) ==
    [kt EXCEPT !.isTracking = FALSE, !.keyEvents = <<>>]

KeyboardStopTracking(kt) ==
    [kt EXCEPT !.isTracking = FALSE]

KeyboardReset(kt) ==
    [kt EXCEPT !.keyEvents = <<>>, !.backspaceCount = 0, !.totalKeyPresses = 0,
               !.lastKeyPressTime = Null]

IsKeyDown(e) ==
    e.eventType = "keydown"

\* variant: counts every buffered event, key releases included
calculateTypingSpeedAllEvents(kt) ==
    IF Len(kt.keyEvents) < 2 THEN 0
    ELSE LET keyDownEvents == SelectSeq(kt.keyEvents, IsKeyDown)
         IN  IF Len(keyDownEvents) < 2 THEN 0
             ELSE LET firstEvent == ParseDate(keyDownEvents[1].timestamp)
                      lastEvent == ParseDate(keyDownEvents[Len(keyDownEvents)].timestamp)
                      timeDiffMs == lastEvent - firstEvent
                  IN  IF timeDiffMs = 0 THEN 0
                      ELSE Round(Len(kt.keyEvents) * 1000 * 60, timeDiffMs * 5)

\* variant: divides the time span by the count
calculateTypingSpeedInverted(kt) ==
    IF Len(kt.keyEvents) < 2 THEN 0
    ELSE LET keyDownEvents == SelectSeq(kt.keyEvents, IsKeyDown)
         IN  IF Len(keyDownEvents) < 2 THEN 0
             ELSE LET firstEvent == ParseDate(keyDownEvents[1].timestamp)
                      lastEvent == ParseDate(keyDownEvents[Len(keyDownEvents)].timestamp)
                      timeDiffMs == lastEvent - firstEvent
                  IN  IF timeDiffMs = 0 THEN 0
                      ELSE Round(timeDiffMs * 60, Len(keyDownEvents) * 1000 * 5)

calculateTypingSpeed(kt) ==
    IF Len(kt.keyEvents) < 2 THEN 0
    ELSE LET keyDownEvents == SelectSeq(kt.keyEvents, IsKeyDown)
         IN  IF Len(keyDownEvents) < 2 THEN 0
             ELSE LET firstEvent == ParseDate(keyDownEvents[1].timestamp)
                      lastEvent == ParseDate(keyDownEvents[Len(keyDownEvents)].timestamp)
                      timeDiffMs == lastEvent - firstEvent
                  IN  IF timeDiffMs = 0 THEN 0
                      \* round(((n / (ms / 1000)) * 60) / 5) = round(12000 n / ms)
                      ELSE Round(Len(keyDownEvents) * 1000 * 60, timeDiffMs * 5)

\* variant: the ratio taken over the buffered events
backspaceRatioOverBuffer(kt) ==
    Fraction(kt.backspaceCount, Max(Len(kt.keyEvents), 1))

\* this.backspaceCount / Math.max(this.totalKeyPresses, 1)
backspaceRatio(kt) ==
    Fraction(kt.backspaceCount, Max(kt.totalKeyPresses, 1))

\* variant: calculateKeyPressVariance() without its buffer-length test
calculateKeyPressVarianceUnguarded(kt) ==
    LET ratio == backspaceRatio(kt)
    IN  Fraction(ratio[1] * 3, ratio[2] * 10)

calculateKeyPressVariance(kt) ==
    IF Len(kt.keyEvents) < 2 THEN <<0, 1>>
    ELSE LET ratio == backspaceRatio(kt)
         \* backspaceRatio * 0.3
         IN  Fraction(ratio[1] * 3, ratio[2] * 10)

\* KeyboardTracker.getStats()
KeyboardGetStats(kt) ==
    [typingSpeed |-> calculateTypingSpeed(kt),
     keyPressVariance |-> calculateKeyPressVariance(kt),
     backspaceCount |-> kt.backspaceCount,
     totalKeyPresses |-> kt.totalKeyPresses,
     backspaceRatio |-> backspaceRatio(kt)]

----------------------------------------------------------------------------
(* StressVisualization *)

RectLeft == 1
RectTop == 2

\* variant: addMousePoint without the shift
addMousePointUnbounded(viz, x, y) ==
    [viz EXCEPT !.mousePoints =
       Append(@, [x |-> x - RectLeft, y |-> y - RectTop, time |-> now])]

\* addMousePoint(x, y): push the canvas-space point, keep the last maxPoints
addMousePoint(viz, x, y) ==
    LET pushed == Append(viz.mousePoints,
                         [x |-> x - RectLeft, y |-> y - RectTop, time |-> now])
    IN  [viz EXCEPT !.mousePoints =
           IF Len(pushed) > maxPoints THEN Tail(pushed) ELSE pushed]

----------------------------------------------------------------------------
(* MouseTracker *)

\* calculateMovementSpeed(event, currentTime), pixels per second as num / den
calculateMovementSpeed(mt, p) ==
    IF mt.lastMouseMoveTime = Null THEN <<0, 1>>
    ELSE LET timeDiffMs == now - mt.lastMouseMoveTime
         IN  IF timeDiffMs = 0 THEN <<0, 1>>
             ELSE <<Distance(mt.lastMousePosition, p) * 1000, timeDiffMs>>

MovementDataOf(mt, p) ==
    [type |-> "mouse", eventType |-> "move", x |-> p[1], y |-> p[2],
     timestamp |-> ToISOString(now),
     movementSpeed |-> calculateMovementSpeed(mt, p)]

MovementData(p) ==
    MovementDataOf(mouseTracker, p)

\* the "Calculate distance moved" block of the mousemove listener
MovedDistance(mt, p) ==
    IF mt.lastMousePosition[1] # 0 \/ mt.lastMousePosition[2] # 0
      THEN mt.totalDistance + Distance(mt.lastMousePosition, p)
      ELSE mt.totalDistance

\* the fields the mousemove listener writes once past its isTracking test
MouseMoveEffect(mt, p) ==
    [mt EXCEPT
       !.mouseEvents = Append(@, MovementDataOf(mt, p)),
       !.totalDistance = MovedDistance(mt, p),
       !.lastMousePosition = p,
       !.lastMouseMoveTime = now]

TwinMouseMove(p) ==
    [twin EXCEPT !.mouseTracker =
       IF @.isTracking THEN MouseMoveEffect(@, p) ELSE @]

\* what the mousemove listener does once past its isTracking test
MouseMoveRecord(p) ==
    /\ mouseTracker' = MouseMoveEffect(mouseTracker, p)
    /\ sent' = Send(MovementData(p))
    /\ visualization' =
         IF SendThrows THEN visualization
         ELSE addMousePoint(visualization, p[1], p[2])
    /\ accepted' = accepted + 1

MouseMove(p) ==
    /\ lastOp' = "mousemove"
    /\ IF ~mouseTracker.isTracking
         THEN UNCHANGED <<mouseTracker, sent, visualization, accepted>>
         ELSE accepted < budget /\ MouseMoveRecord(p)
    /\ twin' = TwinMouseMove(p)
    /\ UNCHANGED <<app, keyboardTracker, trackKeyboard, trackMouse,
                   reconnectTimers, now, budget, snapshot, sessionState>>

\* 0.1 + (currentStress / 4) * 0.3, over VarDen
PressureVariation(currentStress) ==
    4 + 3 * currentStress

\* 0.8 + Math.random() * pressureVariation with Math.random() = r / RandDen,
\* over PressureDen
SimulatedPressure(r, variation) ==
    32 * RandDen + r * variation

ClickData(c, pressure) ==
    [type |-> "mouse", eventType |-> "click", button |-> c.button,
     x |-> c.x, y |-> c.y, timestamp |-> ToISOString(now), pressure |-> pressure]

\* variant: the click pressure drawn without regard to the stress level
MouseDownEffectFixedVariation(mt, c, r, currentStress) ==
    LET variation == PressureVariation(0)
        pressure == SimulatedPressure(r, variation)
    IN  [mt EXCEPT
           !.pressureVariation = variation,
           !.simulatedPressure = pressure,
           !.mouseEvents = Append(@, ClickData(c, pressure)),
           !.clickCount = @ + 1]

\* variant: a click at the highest stress level is not recorded
MouseDownEffectGatedByStress(mt, c, r, currentStress) ==
    IF currentStress = MaxLevel THEN mt
    ELSE LET variation == PressureVariation(currentStress)
             pressure == SimulatedPressure(r, variation)
         IN  [mt EXCEPT
                !.pressureVariation = variation,
                !.simulatedPressure = pressure,
                !.mouseEvents = Append(@, ClickData(c, pressure)),
                !.clickCount = @ + 1]

\* the fields the mousedown listener writes once past its isTracking test,
\* with window.stressApp.currentStressLevel = currentStress and
\* Math.random() = r / RandDen
MouseDownEffect(mt, c, r, currentStress) ==
    LET variation == PressureVariation(currentStress)
        pressure == SimulatedPressure(r, variation)
    IN  [mt EXCEPT
           !.pressureVariation = variation,
           !.simulatedPressure = pressure,
           !.mouseEvents = Append(@, ClickData(c, pressure)),
           !.clickCount = @ + 1]

TwinMouseDown(c, r) ==
    [twin EXCEPT !.mouseTracker =
       IF @.isTracking THEN MouseDownEffect(@, c, r, twin.currentStressLevel) ELSE @]

MouseDownRecord(c, r) ==
    /\ mouseTracker' = MouseDownEffect(mouseTracker, c, r, app.currentStressLevel)
    /\ sent' = Send(ClickData(c, mouseTracker'.simulatedPressure))
    /\ accepted' = accepted + 1

MouseDown(c, r) ==
    /\ lastOp' = "mousedown"
    /\ IF ~mouseTracker.isTracking
         THEN UNCHANGED <<mouseTracker, sent, accepted>>
         ELSE accepted < budget /\ MouseDownRecord(c, r)
    /\ twin' = TwinMouseDown(c, r)
    /\ UNCHANGED <<app, keyboardTracker, visualization, trackKeyboard, trackMouse,
                   reconnectTimers, now, budget, snapshot, sessionState>>

ReleaseData(c) ==
    [type |-> "mouse", eventType |-> "release", button |-> c.button,
     x |-> c.x, y |-> c.y, timestamp |-> ToISOString(now), pressure |-> 0]

\* the mouseup listener builds the release record and only sends it
MouseUp(c) ==
    /\ lastOp' = "mouseup"
    /\ IF ~mouseTracker.isTracking
         THEN UNCHANGED <<sent, accepted>>
         ELSE /\ accepted < budget
              /\ sent' = Send(ReleaseData(c))
              /\ accepted' = accepted + 1
    /\ UNCHANGED twin
    /\ UNCHANGED <<app, keyboardTracker, mouseTracker, visualization, trackKeyboard,
                   trackMouse, reconnectTimers, now, budget, snapshot, sessionState>>

WheelData(w) ==
    [type |-> "mouse", eventType |-> "scroll", deltaX |-> w.deltaX,
     deltaY |-> w.deltaY, timestamp |-> ToISOString(now)]

\* variant: the scroll record is put at the front of the buffer
WheelEffectAtFront(mt, w) ==
    [mt EXCEPT !.mouseEvents = <<WheelData(w)>> \o @]

WheelEffect(mt, w) ==
    [mt EXCEPT !.mouseEvents = Append(@, WheelData(w))]

TwinWheel(w) ==
    [twin EXCEPT !.mouseTracker =
       IF @.isTracking THEN WheelEffect(@, w) ELSE @]

Wheel(w) ==
    /\ lastOp' = "wheel"
    /\ IF ~mouseTracker.isTracking
         THEN UNCHANGED <<mouseTracker, sent, accepted>>
         ELSE /\ accepted < budget
              /\ mouseTracker' = WheelEffect(mouseTracker, w)
              /\ sent' = Send(WheelData(w))
              /\ accepted' = accepted + 1
    /\ twin' = TwinWheel(w)
    /\ UNCHANGED <<app, keyboardTracker, visualization, trackKeyboard, trackMouse,
                   reconnectTimers, now, budget, snapshot, sessionState>>

\* variant: startTracking() that resumes with the recorded data
MouseStartTrackingResumes(mt) ==
    [mt EXCEPT !.isTracking = TRUE]

MouseStartTracking(mt) ==
    [mt EXCEPT !.isTracking = TRUE, !.mouseEvents = <<>>, !.clickCount = 0,
               !.totalDistance = 0]

\* variant: stopTracking() that also zeroes the click counter
MouseStopTrackingZeroes(mt) ==
    [mt EXCEPT !.isTracking = FALSE, !.clickCount = 0]

MouseStopTracking(mt) ==
    [mt EXCEPT !.isTracking = FALSE]

\* variant: reset() that forgets the last-position fields
MouseResetKeepsPosition(mt) ==
    [mt EXCEPT !.mouseEvents = <<>>, !.clickCount = 0, !.totalDistance = 0]

MouseReset(mt) ==
    [mt EXCEPT !.mouseEvents = <<>>, !.clickCount = 0, !.totalDistance = 0,
               !.lastMousePosition = <<0, 0>>, !.lastMouseMoveTime = Null]

----------------------------------------------------------------------------
(* MouseTracker: feature extraction.  A feature value is a fraction          *)
(* <<numerator, denominator>> in lowest terms; angles are in units of        *)
(* 1 / AngleDen radian.                                                      *)

AngleDen == 1000

RECURSIVE SumSeq(_)
SumSeq(s) ==
    IF s = <<>> THEN 0 ELSE Head(s) + SumSeq(Tail(s))

IsMove(e) ==
    e.eventType = "move"

IsClick(e) ==
    e.eventType = "click"

\* Math.acos of the cosines num / den that displacement vectors between the
\* pointer positions of Coords and LineCoords form, rounded to 1 / AngleDen
AcosTable ==
    << <<1, 1, 0>>, <<12, 13, 395>>, <<4, 5, 644>>, <<119, 169, 790>>,
       <<3, 5, 927>>, <<5, 13, 1176>>, <<0, 1, 1571>>,
       <<0 - 5, 13, 1966>>, <<0 - 3, 5, 2214>>, <<0 - 119, 169, 2352>>,
       <<0 - 4, 5, 2498>>, <<0 - 12, 13, 2747>>, <<0 - 1, 1, 3142>> >>

Acos(num, den) ==
    LET k == CHOOSE i \in 1 .. Len(AcosTable) :
                 AcosTable[i][1] * den = num * AcosTable[i][2]
    IN  AcosTable[k][3]

\* dx, dy from moveEvents[j - 1] to moveEvents[j]
Displacement(moveEvents, j) ==
    <<moveEvents[j].x - moveEvents[j - 1].x, moveEvents[j].y - moveEvents[j - 1].y>>

\* Math.sqrt(dx * dx + dy * dy)
Magnitude(d) ==
    Sqrt(d[1] * d[1] + d[2] * d[2])

DotProduct(d1, d2) ==
    d1[1] * d2[1] + d1[2] * d2[2]

\* the angleChanges array: one angle per three consecutive moves whose two
\* displacement vectors both have a length above zero
AngleChanges(moveEvents) ==
    LET HasAngle(j) ==
            /\ Magnitude(Displacement(moveEvents, j - 1)) > 0
            /\ Magnitude(Displacement(moveEvents, j)) > 0
        triples == SelectSeq([k \in 1 .. (Len(moveEvents) - 2) |-> k + 2], HasAngle)
        Angle(j) ==
            LET d1 == Displacement(moveEvents, j - 1)
                d2 == Displacement(moveEvents, j)
            IN  Acos(DotProduct(d1, d2), Magnitude(d1) * Magnitude(d2))
    IN  [k \in 1 .. Len(triples) |-> Angle(triples[k])]

\* sum of (angle - mean)^2 times n^2, with mean = sum / n
SquaredDeviations(angleChanges) ==
    LET n == Len(angleChanges)
        sum == SumSeq(angleChanges)
    IN  SumSeq([k \in 1 .. n |->
                  (n * angleChanges[k] - sum) * (n * angleChanges[k] - sum)])

\* variant: returns the variance without the factor 10 and without Math.min
calculateMouseRandomnessUnscaled(mt) ==
    IF Len(mt.mouseEvents) < 3 THEN <<1, 10>>
    ELSE LET moveEvents == SelectSeq(mt.mouseEvents, IsMove)
         IN  IF Len(moveEvents) < 3 THEN <<1, 10>>
             ELSE LET angleChanges == AngleChanges(moveEvents)
                      n == Len(angleChanges)
                  IN  IF n = 0 THEN <<1, 10>>
                      ELSE Fraction(SquaredDeviations(angleChanges),
                                    n * n * n * AngleDen * AngleDen)

\* variant: returns variance * 10 without Math.min
calculateMouseRandomnessUnclamped(mt) ==
    IF Len(mt.mouseEvents) < 3 THEN <<1, 10>>
    ELSE LET moveEvents == SelectSeq(mt.mouseEvents, IsMove)
         IN  IF Len(moveEvents) < 3 THEN <<1, 10>>
             ELSE LET angleChanges == AngleChanges(moveEvents)
                      n == Len(angleChanges)
                  IN  IF n = 0 THEN <<1, 10>>
                      ELSE Fraction(SquaredDeviations(angleChanges),
                                    n * n * n * ((AngleDen * AngleDen) \div 10))

calculateMouseRandomness(mt) ==
    IF Len(mt.mouseEvents) < 3 THEN <<1, 10>>
    ELSE LET moveEvents == SelectSeq(mt.mouseEvents, IsMove)
         IN  IF Len(moveEvents) < 3 THEN <<1, 10>>
             ELSE LET angleChanges == AngleChanges(moveEvents)
                      n == Len(angleChanges)
                  IN  IF n = 0 THEN <<1, 10>>
                      \* variance = sq / n^3 in 1 / AngleDen^2; variance * 10
                      \* = sq / (n^3 * AngleDen^2 / 10), capped at 1
                      ELSE LET sq == SquaredDeviations(angleChanges)
                               den == n * n * n * ((AngleDen * AngleDen) \div 10)
                           IN  IF sq >= den THEN <<1, 1>> ELSE Fraction(sq, den)

\* variant: the count and the time span taken over every buffered event
calculateClickFrequencyAllEvents(mt) ==
    IF Len(mt.mouseEvents) < 2 THEN <<0, 1>>
    ELSE LET clickEvents == mt.mouseEvents
             firstClick == ParseDate(clickEvents[1].timestamp)
             lastClick == ParseDate(clickEvents[Len(clickEvents)].timestamp)
             timeDiffMs == lastClick - firstClick
         IN  IF timeDiffMs = 0 THEN <<0, 1>>
             ELSE Fraction(Len(clickEvents) * 1000, timeDiffMs)

\* clicks per second
calculateClickFrequency(mt) ==
    IF Len(mt.mouseEvents) < 2 THEN <<0, 1>>
    ELSE LET clickEvents == SelectSeq(mt.mouseEvents, IsClick)
         IN  IF Len(clickEvents) < 2 THEN <<0, 1>>
             ELSE LET firstClick == ParseDate(clickEvents[1].timestamp)
                      lastClick == ParseDate(clickEvents[Len(clickEvents)].timestamp)
                      timeDiffMs == lastClick - firstClick
                  IN  IF timeDiffMs = 0 THEN <<0, 1>>
                      \* n / (ms / 1000)
                      ELSE Fraction(Len(clickEvents) * 1000, timeDiffMs)

\* e.eventType === 'click' && e.pressure
IsPressedClick(e) ==
    e.eventType = "click" /\ e.pressure # 0

\* variant: the pressure total divided by the number of buffered events
calculateAveragePressureOverBuffer(mt) ==
    LET clickEvents == SelectSeq(mt.mouseEvents, IsPressedClick)
    IN  IF Len(clickEvents) = 0 THEN <<1, 1>>
        ELSE LET totalPressure ==
                     SumSeq([k \in 1 .. Len(clickEvents) |-> clickEvents[k].pressure])
             IN  Fraction(totalPressure, Len(mt.mouseEvents) * PressureDen)

calculateAveragePressure(mt) ==
    LET clickEvents == SelectSeq(mt.mouseEvents, IsPressedClick)
    IN  IF Len(clickEvents) = 0 THEN <<1, 1>>
        ELSE LET totalPressure ==
                     SumSeq([k \in 1 .. Len(clickEvents) |-> clickEvents[k].pressure])
             IN  Fraction(totalPressure, Len(clickEvents) * PressureDen)

\* MouseTracker.getStats()
\* variant: moveCount counts every event of the buffer
MouseGetStatsAllEvents(mt) ==
    [mouseRandomness |-> calculateMouseRandomness(mt),
     clickFrequency |-> calculateClickFrequency(mt),
     averagePressure |-> calculateAveragePressure(mt),
     totalClicks |-> mt.clickCount,
     totalDistance |-> Round(mt.totalDistance, 1),
     moveCount |-> Len(mt.mouseEvents)]

MouseGetStats(mt) ==
    [mouseRandomness |-> calculateMouseRandomness(mt),
     clickFrequency |-> calculateClickFrequency(mt),
     averagePressure |-> calculateAveragePressure(mt),
     totalClicks |-> mt.clickCount,
     totalDistance |-> Round(mt.totalDistance, 1),
     moveCount |-> Len(SelectSeq(mt.mouseEvents, IsMove))]

----------------------------------------------------------------------------
(* StressDetectionApp: monitoring lifecycle *)

\* the same lifecycle calls made on the second run's trackers
TwinStart ==
    [twin EXCEPT
       !.keyboardTracker = IF trackKeyboard THEN KeyboardStartTracking(@) ELSE @,
       !.mouseTracker = IF trackMouse THEN MouseStartTracking(@) ELSE @]

TwinPause ==
    [twin EXCEPT
       !.keyboardTracker = KeyboardStopTracking(@),
       !.mouseTracker = MouseStopTracking(@)]

TwinReset ==
    [twin EXCEPT
       !.keyboardTracker = KeyboardStopTracking(KeyboardReset(@)),
       !.mouseTracker = MouseStopTracking(MouseReset(@))]

\* variant: startMonitoring() without its isMonitoring test
startMonitoringUnguarded ==
    /\ lastOp' = "start"
    /\ app' = [app EXCEPT !.isMonitoring = TRUE, !.sessionStartTime = now]
    /\ keyboardTracker' =
         IF trackKeyboard THEN KeyboardStartTracking(keyboardTracker)
         ELSE keyboardTracker
    /\ mouseTracker' =
         IF trackMouse THEN MouseStartTracking(mouseTracker)
         ELSE mouseTracker
    /\ twin' = TwinStart
    /\ sessionState' = "Active"
    /\ UNCHANGED <<visualization, trackKeyboard, trackMouse, reconnectTimers,
                   sent, now, accepted, budget, snapshot>>

startMonitoring ==
    /\ lastOp' = "start"
    /\ IF ~app.isMonitoring
         THEN /\ app' = [app EXCEPT !.isMonitoring = TRUE, !.sessionStartTime = now]
              /\ keyboardTracker' =
                   IF trackKeyboard THEN KeyboardStartTracking(keyboardTracker)
                   ELSE keyboardTracker
              /\ mouseTracker' =
                   IF trackMouse THEN MouseStartTracking(mouseTracker)
                   ELSE mouseTracker
              /\ twin' = TwinStart
              /\ sessionState' = "Active"
         ELSE UNCHANGED <<app, keyboardTracker, mouseTracker, twin, sessionState>>
    /\ UNCHANGED <<visualization, trackKeyboard, trackMouse, reconnectTimers,
                   sent, now, accepted, budget, snapshot>>

pauseMonitoring ==
    /\ lastOp' = "pause"
    /\ IF app.isMonitoring
         THEN /\ app' = [app EXCEPT !.isMonitoring = FALSE]
              /\ keyboardTracker' = KeyboardStopTracking(keyboardTracker)
              /\ mouseTracker' = MouseStopTracking(mouseTracker)
              /\ twin' = TwinPause
              /\ sessionState' = "Paused"
         ELSE UNCHANGED <<app, keyboardTracker, mouseTracker, twin, sessionState>>
    /\ UNCHANGED <<visualization, trackKeyboard, trackMouse, reconnectTimers,
                   sent, now, accepted, budget, snapshot>>

\* variant: the reset also forgets the last known stress level
resetSessionForgetsLevel ==
    /\ lastOp' = "reset"
    /\ app' = [app EXCEPT !.isMonitoring = FALSE, !.currentStressLevel = 0]
    /\ keyboardTracker' = KeyboardStopTracking(KeyboardReset(keyboardTracker))
    /\ mouseTracker' = MouseStopTracking(MouseReset(mouseTracker))
    /\ twin' = TwinReset
    /\ sessionState' = "Idle"
    \* the stress score text, updateStressGauge(0, 0.85), historyList.innerHTML = ''
    /\ visualization' =
         [updateStressGauge(visualization, 0, DefaultConfidence) EXCEPT
            !.stressScore = 0, !.historyList = <<>>]
    /\ UNCHANGED <<trackKeyboard, trackMouse, reconnectTimers,
                   sent, now, accepted, budget, snapshot>>

resetSession ==
    /\ lastOp' = "reset"
    /\ app' = [app EXCEPT !.isMonitoring = FALSE]
    /\ keyboardTracker' = KeyboardStopTracking(KeyboardReset(keyboardTracker))
    /\ mouseTracker' = MouseStopTracking(MouseReset(mouseTracker))
    /\ twin' = TwinReset
    /\ sessionState' = "Idle"
    \* the stress score text, updateStressGauge(0, 0.85), historyList.innerHTML = ''
    /\ visualization' =
         [updateStressGauge(visualization, 0, DefaultConfidence) EXCEPT
            !.stressScore = 0, !.historyList = <<>>]
    /\ UNCHANGED <<trackKeyboard, trackMouse, reconnectTimers,
                   sent, now, accepted, budget, snapshot>>

\* change listener of the #trackKeyboard checkbox; the click flips the box
\* variant: checking the box starts the tracker without looking at isMonitoring
ToggleTrackKeyboardUnguarded ==
    /\ lastOp' = "trackKeyboard"
    /\ trackKeyboard' = ~trackKeyboard
    /\ keyboardTracker' =
         IF ~trackKeyboard' THEN KeyboardStopTracking(keyboardTracker)
         ELSE KeyboardStartTracking(keyboardTracker)
    /\ twin' = [twin EXCEPT !.keyboardTracker =
                  IF ~trackKeyboard' THEN KeyboardStopTracking(@)
                  ELSE KeyboardStartTracking(@)]
    /\ UNCHANGED <<app, mouseTracker, visualization, trackMouse, reconnectTimers,
                   sent, now, accepted, budget, snapshot, sessionState>>

ToggleTrackKeyboard ==
    /\ lastOp' = "trackKeyboard"
    /\ trackKeyboard' = ~trackKeyboard
    /\ keyboardTracker' =
         IF ~trackKeyboard' THEN KeyboardStopTracking(keyboardTracker)
         ELSE IF app.isMonitoring THEN KeyboardStartTracking(keyboardTracker)
         ELSE keyboardTracker
    /\ twin' = [twin EXCEPT !.keyboardTracker =
                  IF ~trackKeyboard' THEN KeyboardStopTracking(@)
                  ELSE IF app.isMonitoring THEN KeyboardStartTracking(@)
                  ELSE @]
    /\ UNCHANGED <<app, mouseTracker, visualization, trackMouse, reconnectTimers,
                   sent, now, accepted, budget, snapshot, sessionState>>

\* variant: unchecking the mouse box stops the keyboard tracker as well
ToggleTrackMouseStopsBoth ==
    /\ lastOp' = "trackMouse"
    /\ trackMouse' = ~trackMouse
    /\ mouseTracker' =
         IF ~trackMouse' THEN MouseStopTracking(mouseTracker)
         ELSE IF app.isMonitoring THEN MouseStartTracking(mouseTracker)
         ELSE mouseTracker
    /\ twin' = [twin EXCEPT !.mouseTracker =
                  IF ~trackMouse' THEN MouseStopTracking(@)
                  ELSE IF app.isMonitoring THEN MouseStartTracking(@)
                  ELSE @]
    /\ keyboardTracker' =
         IF ~trackMouse' THEN KeyboardStopTracking(keyboardTracker)
         ELSE keyboardTracker
    /\ UNCHANGED <<app, visualization, trackKeyboard,
                   reconnectTimers, sent, now, accepted, budget, snapshot, sessionState>>

ToggleTrackMouse ==
    /\ lastOp' = "trackMouse"
    /\ trackMouse' = ~trackMouse
    /\ mouseTracker' =
         IF ~trackMouse' THEN MouseStopTracking(mouseTracker)
         ELSE IF app.isMonitoring THEN MouseStartTracking(mouseTracker)
         ELSE mouseTracker
    /\ twin' = [twin EXCEPT !.mouseTracker =
                  IF ~trackMouse' THEN MouseStopTracking(@)
                  ELSE IF app.isMonitoring THEN MouseStartTracking(@)
                  ELSE @]
    /\ UNCHANGED <<app, keyboardTracker, visualization, trackKeyboard,
                   reconnectTimers, sent, now, accepted, budget, snapshot, sessionState>>

----------------------------------------------------------------------------
(* StressDetectionApp: classifier socket *)

WsOpen ==
    /\ app.ws = "CONNECTING"
    /\ UNCHANGED <<lastOp, twin>>
    /\ app' = [app EXCEPT !.ws = "OPEN", !.isConnected = TRUE]
    /\ visualization' = updateConnectionStatus(visualization, TRUE)
    /\ UNCHANGED <<keyboardTracker, mouseTracker, trackKeyboard,
                   trackMouse, reconnectTimers, sent, now, accepted, budget, snapshot, sessionState>>

\* variant: the close handler arms the reconnect timer twice
WsCloseTwoTimers ==
    /\ app.ws \in {"CONNECTING", "OPEN"}
    /\ UNCHANGED <<lastOp, twin>>
    /\ app' = [app EXCEPT !.ws = "CLOSED", !.isConnected = FALSE]
    /\ visualization' = updateConnectionStatus(visualization, FALSE)
    /\ reconnectTimers' = reconnectTimers + 2
    /\ UNCHANGED <<keyboardTracker, mouseTracker, trackKeyboard,
                   trackMouse, sent, now, accepted, budget, snapshot, sessionState>>

WsClose ==
    /\ app.ws \in {"CONNECTING", "OPEN"}
    /\ UNCHANGED <<lastOp, twin>>
    /\ app' = [app EXCEPT !.ws = "CLOSED", !.isConnected = FALSE]
    /\ visualization' = updateConnectionStatus(visualization, FALSE)
    /\ reconnectTimers' = reconnectTimers + 1
    /\ UNCHANGED <<keyboardTracker, mouseTracker, trackKeyboard,
                   trackMouse, sent, now, accepted, budget, snapshot, sessionState>>

\* onerror: the error is logged and the status display set; isConnected is
\* left as it is and no timer is armed
WsError ==
    /\ app.ws \in {"CONNECTING", "OPEN"}
    /\ UNCHANGED <<lastOp, twin>>
    /\ visualization' = updateConnectionStatus(visualization, FALSE)
    /\ UNCHANGED <<app, keyboardTracker, mouseTracker, trackKeyboard, trackMouse,
                   reconnectTimers, sent, now, accepted, budget, snapshot, sessionState>>

\* the 5 s timer fires: initializeWebSocket() replaces the socket
ReconnectTimer ==
    /\ reconnectTimers > 0
    /\ UNCHANGED <<lastOp, twin>>
    /\ reconnectTimers' = reconnectTimers - 1
    /\ app' = [app EXCEPT !.ws = "CONNECTING"]
    /\ UNCHANGED <<keyboardTracker, mouseTracker, visualization, trackKeyboard,
                   trackMouse, sent, now, accepted, budget, snapshot, sessionState>>

handleStressPrediction(data) ==
    LET prediction == data.prediction
    IN  /\ app' = [app EXCEPT !.currentStressLevel = prediction.level_index,
                              !.stressConfidence = prediction.confidence]
        /\ visualization' =
             [addStressRecord(
                  updateStressGauge(visualization, prediction.level_index,
                                    prediction.confidence),
                  prediction.level_index, prediction.confidence)
                EXCEPT !.stressScore = prediction.level_index * 25]

\* variant: onmessage without its test of data.type
WsMessageAnyType(data) ==
    /\ app.ws = "OPEN"
    /\ UNCHANGED <<lastOp, twin>>
    /\ accepted < budget
    /\ handleStressPrediction(data)
    /\ accepted' = accepted + 1
    /\ UNCHANGED <<keyboardTracker, mouseTracker, trackKeyboard, trackMouse,
                   reconnectTimers, sent, now, budget, snapshot, sessionState>>

\* ws.onmessage; a prediction counts as one processed event
WsMessage(data) ==
    /\ app.ws = "OPEN"
    /\ UNCHANGED <<lastOp, twin>>
    /\ IF data.type = "prediction"
         THEN /\ accepted < budget
              /\ handleStressPrediction(data)
              /\ accepted' = accepted + 1
         ELSE UNCHANGED <<app, visualization, accepted>>
    /\ UNCHANGED <<keyboardTracker, mouseTracker, trackKeyboard, trackMouse,
                   reconnectTimers, sent, now, budget, snapshot, sessionState>>

Confidences == { 855 }

MessageInputs ==
    [type : {"prediction", "status"},
     prediction : [level_index : Levels, confidence : Confidences]]

\* ws.onmessage of the second run: its own prediction arrives
TwinMessage(data) ==
    /\ app.ws = "OPEN"
    /\ data.type = "prediction"
    /\ twin' = [twin EXCEPT !.currentStressLevel = data.prediction.level_index]
    /\ UNCHANGED <<app, keyboardTracker, mouseTracker, visualization, trackKeyboard,
                   trackMouse, reconnectTimers, sent, now, accepted, budget,
                   snapshot, sessionState, lastOp>>

----------------------------------------------------------------------------
(* Feature snapshot *)

\* variant: a getStats() that empties the buffers it has read
GetStatsDraining ==
    /\ lastOp' = "getStats"
    /\ snapshot' = [keyboard |-> KeyboardGetStats(keyboardTracker),
                    mouse |-> MouseGetStats(mouseTracker)]
    /\ keyboardTracker' = [keyboardTracker EXCEPT !.keyEvents = <<>>]
    /\ mouseTracker' = [mouseTracker EXCEPT !.mouseEvents = <<>>]
    /\ UNCHANGED <<app, visualization, trackKeyboard, trackMouse, reconnectTimers,
                   sent, now, accepted, budget, twin, sessionState>>

\* getStats() called on both trackers
GetStats ==
    /\ lastOp' = "getStats"
    /\ snapshot' = [keyboard |-> KeyboardGetStats(keyboardTracker),
                    mouse |-> MouseGetStats(mouseTracker)]
    /\ UNCHANGED <<app, keyboardTracker, mouseTracker, visualization, trackKeyboard,
                   trackMouse, reconnectTimers, sent, now, accepted, budget, twin,
                   sessionState>>

----------------------------------------------------------------------------
(* Time *)

Tick(d) ==
    /\ now + d <= MaxTime
    /\ now' = now + d
    /\ UNCHANGED <<lastOp, twin>>
    /\ UNCHANGED <<app, keyboardTracker, mouseTracker, visualization, trackKeyboard,
                   trackMouse, reconnectTimers, sent, accepted, budget, snapshot, sessionState>>

----------------------------------------------------------------------------
(* Groups of handlers *)

KeyboardInput(keys) ==
    \/ \E k \in keys : KeyDown(k)
    \/ \E k \in keys : KeyUp(k)

MouseInput(coords) ==
    \/ \E p \in coords : MouseMove(p)
    \/ \E c \in ClickInputs, r \in RandomDraws : MouseDown(c, r)
    \/ \E c \in ClickInputs : MouseUp(c)
    \/ \E w \in WheelInputs : Wheel(w)

Lifecycle ==
    \/ startMonitoring
    \/ pauseMonitoring
    \/ resetSession
    \/ ToggleTrackKeyboard
    \/ ToggleTrackMouse

Socket ==
    \/ WsOpen
    \/ WsClose
    \/ WsError
    \/ ReconnectTimer

\* Every handler of the page
Next ==
    \/ KeyboardInput(KeyInputs)
    \/ MouseInput(Coords)
    \/ Lifecycle
    \/ Socket
    \/ \E data \in MessageInputs : WsMessage(data)
    \/ \E d \in TickSteps : Tick(d)

Spec == Init /\ [][Next]_vars

\* The session state machine and the listeners it gates, at one instant and
\* for each state the socket can have reached
InitSession ==
    \E w \in SocketStates : Constructed(w, MaxEvents)

NextSession ==
    \/ KeyboardInput(KeyInputs)
    \/ MouseInput(Coords)
    \/ Lifecycle

SpecSession == InitSession /\ [][NextSession]_vars

----------------------------------------------------------------------------
(* Properties of the session state machine, checked under SpecSession *)

KeyboardData(kt) ==
    <<kt.keyEvents, kt.totalKeyPresses, kt.backspaceCount>>

MouseData(mt) ==
    <<mt.mouseEvents, mt.clickCount, mt.totalDistance>>

MouseLast(mt) ==
    <<mt.lastMousePosition, mt.lastMouseMoveTime>>

KeyboardStep ==
    \E k \in KeyInputs : KeyDown(k) \/ KeyUp(k)

MouseStep ==
    \/ \E p \in Coords : MouseMove(p)
    \/ \E c \in ClickInputs, r \in RandomDraws : MouseDown(c, r)
    \/ \E c \in ClickInputs : MouseUp(c)
    \/ \E w \in WheelInputs : Wheel(w)

\* C1: an input event delivered while its tracker's isTracking is false changes
\* no buffer, no running counter, no last-position or last-timestamp field, and
\* sends nothing.
C1_InactiveRecordingIsNoOp ==
    [][ /\ (~keyboardTracker.isTracking /\ KeyboardStep)
            => UNCHANGED <<keyboardTracker, mouseTracker, sent, visualization>>
        /\ (~mouseTracker.isTracking /\ MouseStep)
            => UNCHANGED <<keyboardTracker, mouseTracker, sent, visualization>>
      ]_vars

\* a keydown has just been delivered to a paused session that holds data, with
\* the socket open
C1_Witness ==
    /\ lastOp = "keydown"
    /\ ~keyboardTracker.isTracking
    /\ sessionState = "Paused"
    /\ Len(keyboardTracker.keyEvents) > 0
    /\ app.ws = "OPEN"

Cleared ==
    /\ keyboardTracker.keyEvents = <<>>
    /\ keyboardTracker.totalKeyPresses = 0
    /\ keyboardTracker.backspaceCount = 0
    /\ keyboardTracker.lastKeyPressTime = Null
    /\ mouseTracker.mouseEvents = <<>>
    /\ mouseTracker.clickCount = 0
    /\ mouseTracker.totalDistance = 0
    /\ mouseTracker.lastMousePosition = <<0, 0>>
    /\ mouseTracker.lastMouseMoveTime = Null

\* C2: reset() from any state ends Idle with everything cleared, and the start()
\* that follows changes none of the cleared data and makes the session Active.
C2_ResetClearsThenStartOnlyActivates ==
    [][ /\ resetSession
            => (/\ sessionState = "Idle"
                /\ ~app.isMonitoring
                /\ ~keyboardTracker.isTracking
                /\ ~mouseTracker.isTracking
                /\ Cleared)'
        /\ (lastOp = "reset" /\ startMonitoring)
            => /\ Cleared /\ Cleared'
               /\ (sessionState = "Active")'
               /\ app'.isMonitoring
      ]_vars

\* reset() has just run on a session that had recorded and sent events
C2_Witness ==
    /\ lastOp = "reset"
    /\ sessionState = "Idle"
    /\ Len(sent) = MaxEvents
    /\ Cleared

\* C3 as stated: a start() that resumes from Paused leaves the buffers and the
\* running counters as pause() left them.
C3_ResumeKeepsData ==
    [][ (sessionState = "Paused" /\ startMonitoring)
            => /\ KeyboardData(keyboardTracker') = KeyboardData(keyboardTracker)
               /\ MouseData(mouseTracker') = MouseData(mouseTracker)
      ]_vars

\* C3 amended: a start() from a session that is not monitoring, Idle or Paused
\* alike, empties the buffer and zeroes the counters of each tracker whose
\* checkbox is checked, leaves an unchecked tracker as it is, and keeps the
\* mouse tracker's last position and last move time.
C3_StartAlwaysClears ==
    [][ (~app.isMonitoring /\ startMonitoring)
            => /\ IF trackKeyboard
                    THEN /\ KeyboardData(keyboardTracker') = <<<<>>, 0, 0>>
                         /\ keyboardTracker'.isTracking
                    ELSE keyboardTracker' = keyboardTracker
               /\ IF trackMouse
                    THEN /\ MouseData(mouseTracker') = <<<<>>, 0, 0>>
                         /\ mouseTracker'.isTracking
                    ELSE mouseTracker' = mouseTracker
               /\ MouseLast(mouseTracker') = MouseLast(mouseTracker)
      ]_vars

\* start() has just emptied the mouse buffer of a session that had recorded a
\* move since the last reset
C3_Witness ==
    /\ lastOp = "start"
    /\ mouseTracker.isTracking
    /\ mouseTracker.mouseEvents = <<>>
    /\ mouseTracker.lastMousePosition # <<0, 0>>

\* C4: pause() changes nothing when the session is not monitoring; otherwise it
\* makes the session Paused and only clears the trackers' isTracking flags.
C4_PausePreservesData ==
    [][ pauseMonitoring
            => IF app.isMonitoring
                 THEN /\ sessionState' = "Paused"
                      /\ ~app'.isMonitoring
                      /\ keyboardTracker' = [keyboardTracker EXCEPT !.isTracking = FALSE]
                      /\ mouseTracker' = [mouseTracker EXCEPT !.isTracking = FALSE]
                 ELSE UNCHANGED <<app, keyboardTracker, mouseTracker, sessionState>>
      ]_vars

\* pause() has just run on an active session with data in both buffers
C4_Witness ==
    /\ lastOp = "pause"
    /\ sessionState = "Paused"
    /\ Len(keyboardTracker.keyEvents) > 0
    /\ Len(mouseTracker.mouseEvents) > 0

\* C5: start() on a session that is already monitoring changes neither the
\* state nor any buffer, counter or session start time.
C5_StartWhileActiveIsNoOp ==
    [][ (app.isMonitoring /\ startMonitoring)
            => UNCHANGED <<app, keyboardTracker, mouseTracker, sessionState,
                           visualization, sent>>
      ]_vars

\* start() has just run on an active session whose buffers both hold data
C5_Witness ==
    /\ lastOp = "start"
    /\ sessionState = "Active"
    /\ keyboardTracker.isTracking /\ Len(keyboardTracker.keyEvents) > 0
    /\ mouseTracker.isTracking /\ Len(mouseTracker.mouseEvents) > 0

CountersNotLower ==
    /\ keyboardTracker'.totalKeyPresses >= keyboardTracker.totalKeyPresses
    /\ keyboardTracker'.backspaceCount >= keyboardTracker.backspaceCount
    /\ mouseTracker'.clickCount >= mouseTracker.clickCount
    /\ mouseTracker'.totalDistance >= mouseTracker.totalDistance

\* C7 as stated: no step other than reset() lowers a running counter.
C7_OnlyResetLowersCounters ==
    [][ ~resetSession => CountersNotLower ]_vars

\* C7 amended: input events, pause(), a start() on an active session and
\* unchecking a tracker never lower a running counter; the steps that zero
\* counters are reset(), a start() that begins monitoring, and re-checking a
\* tracker's checkbox while monitoring.
C7_CountersLoweredOnlyByClearingSteps ==
    [][ \/ resetSession
        \/ (~app.isMonitoring /\ startMonitoring)
        \/ (app.isMonitoring /\ ~trackKeyboard /\ ToggleTrackKeyboard)
        \/ (app.isMonitoring /\ ~trackMouse /\ ToggleTrackMouse)
        \/ CountersNotLower
      ]_vars

\* pause() has just run with a click and a key press counted
C7_Witness ==
    /\ lastOp = "pause"
    /\ mouseTracker.clickCount > 0
    /\ keyboardTracker.totalKeyPresses > 0


RECURSIVE PathLength(_)
\* sum of the Euclidean distances between consecutive move events
PathLength(moves) ==
    IF Len(moves) < 2 THEN 0
    ELSE PathLength(SubSeq(moves, 1, Len(moves) - 1))
         + Distance(<<moves[Len(moves) - 1].x, moves[Len(moves) - 1].y>>,
                    <<moves[Len(moves)].x, moves[Len(moves)].y>>)

\* C8: totalDistance is the sum of the distances between consecutive recorded
\* moves, wherever they are, the first move adding nothing.
C8_TotalDistanceIsPathLength ==
    mouseTracker.totalDistance
      = PathLength(SelectSeq(mouseTracker.mouseEvents, IsMove))

----------------------------------------------------------------------------
(* The pointer buffer and the heatmap points around maxPoints entries *)

PreloadedMove ==
    [type |-> "mouse", eventType |-> "move", x |-> 3, y |-> 0,
     timestamp |-> ToISOString(0), movementSpeed |-> <<0, 1>>]

PreloadedPoint ==
    [x |-> 3 - RectLeft, y |-> 0 - RectTop, time |-> 0]

\* The state after the socket has closed, startMonitoring() has run and
\* maxPoints - 1 moves at (3, 0) have been recorded at time 0
InitCap ==
    /\ app = [ws |-> "CLOSED", isConnected |-> FALSE, isMonitoring |-> TRUE,
              sessionStartTime |-> 0, currentStressLevel |-> 0,
              stressConfidence |-> 0]
    /\ keyboardTracker = [keyEvents |-> <<>>, sessionStartTime |-> 0,
                          isTracking |-> TRUE, lastKeyPressTime |-> Null,
                          backspaceCount |-> 0, totalKeyPresses |-> 0]
    /\ mouseTracker = [mouseEvents |-> [i \in 1 .. (maxPoints - 1) |-> PreloadedMove],
                       isTracking |-> TRUE,
                       lastMousePosition |-> <<3, 0>>, lastMouseMoveTime |-> 0,
                       clickCount |-> 0, totalDistance |-> 0,
                       simulatedPressure |-> PressureDen, pressureVariation |-> 0]
    /\ visualization = [updateConnectionStatus(InitialVisualization, FALSE) EXCEPT
                          !.mousePoints = [i \in 1 .. (maxPoints - 1) |-> PreloadedPoint]]
    /\ trackKeyboard = TRUE
    /\ trackMouse = TRUE
    /\ reconnectTimers = 1
    /\ sent = <<>>
    /\ now = 0
    /\ accepted = maxPoints - 1
    /\ budget = maxPoints + CapMargin
    /\ twin = [currentStressLevel |-> app.currentStressLevel,
               keyboardTracker |-> keyboardTracker, mouseTracker |-> mouseTracker]
    /\ snapshot = Null
    /\ sessionState = "Active"
    /\ lastOp = "mousemove"

NextCap ==
    MouseInput(Coords)

SpecCap == InitCap /\ [][NextCap]_vars

\* C6 as stated: the pointer event buffer never holds more than 1000 events.
C6_PointerBufferCapped ==
    Len(mouseTracker.mouseEvents) <= maxPoints

\* C6 amended: it is the heatmap point list that never holds more than 1000
\* points: addMousePoint appends each point at its tail and, when that makes
\* 1001, drops the oldest point from the head; the tracker's pointer event
\* buffer has no capacity: whatever is recorded is appended and nothing is
\* evicted.
C6_HeatmapPointsCapped ==
    /\ [](Len(visualization.mousePoints) <= maxPoints)
    /\ [][ LET old == visualization.mousePoints
               new == visualization'.mousePoints
           IN  /\ new # old =>
                    new = IF Len(old) < maxPoints
                            THEN Append(old, new[Len(new)])
                            ELSE Append(Tail(old), new[Len(new)])
               /\ mouseTracker'.mouseEvents # mouseTracker.mouseEvents =>
                    SubSeq(mouseTracker'.mouseEvents, 1,
                           Len(mouseTracker'.mouseEvents) - 1)
                      = mouseTracker.mouseEvents
         ]_vars

\* the heatmap list is full and has dropped points the event buffer still holds
C6_Witness ==
    /\ Len(visualization.mousePoints) = maxPoints
    /\ Len(mouseTracker.mouseEvents) > maxPoints
    /\ visualization.mousePoints[maxPoints].x # PreloadedPoint.x

----------------------------------------------------------------------------
(* Typing speed, over buffers of key presses and releases spread in time *)

InitTyping ==
    Constructed("OPEN", MaxKeyEvents)

NextTyping ==
    \/ startMonitoring
    \/ KeyboardInput(TypingKeyInputs)
    \/ \E d \in TypingTickSteps : Tick(d)

SpecTyping == InitTyping /\ [][NextTyping]_vars

\* positions of the keydown events in the keyboard buffer
DownAt ==
    { i \in 1 .. Len(keyboardTracker.keyEvents) :
        keyboardTracker.keyEvents[i].eventType = "keydown" }

FirstDown == CHOOSE i \in DownAt : \A j \in DownAt : i <= j

LastDown == CHOOSE i \in DownAt : \A j \in DownAt : j <= i

TimeAt(i) ==
    ParseDate(keyboardTracker.keyEvents[i].timestamp)

DownTimes ==
    { TimeAt(i) : i \in DownAt }

\* C9: the typing speed is 0 with fewer than 2 keydown events or a zero span,
\* otherwise the integer nearest to (n / spanSeconds * 60) / 5 = 12000 n / spanMs
\* (halves rounded up), n counting keydown events only; five keydowns at
\* 0, 200, 400, 600 and 800 ms give 75.
C9_TypingSpeedFormula ==
    LET n == Cardinality(DownAt)
        wpm == calculateTypingSpeed(keyboardTracker)
    IN  /\ n < 2 => wpm = 0
        /\ n >= 2 =>
             LET spanMs == TimeAt(LastDown) - TimeAt(FirstDown)
             IN  IF spanMs = 0 THEN wpm = 0
                 ELSE /\ 2 * spanMs * wpm <= 2 * 12000 * n + spanMs
                      /\ 2 * spanMs * wpm > 2 * 12000 * n - spanMs
        /\ (n = 5 /\ DownTimes = {0, 200, 400, 600, 800}) => wpm = 75

\* the buffer holds exactly the five keydowns of the example
C9_Witness ==
    /\ Cardinality(DownAt) = 5
    /\ DownTimes = {0, 200, 400, 600, 800}
    /\ calculateTypingSpeed(keyboardTracker) = 75

\* the buffer with one more keydown put right after position i, at the time of
\* the event at i
WithKeyDownAfter(i) ==
    LET evs == keyboardTracker.keyEvents
        extra == [type |-> "keyboard", key |-> "a", code |-> "KeyA",
                  timestamp |-> evs[i].timestamp, eventType |-> "keydown",
                  pressure |-> PressureDen]
    IN  [keyboardTracker EXCEPT !.keyEvents =
           SubSeq(evs, 1, i) \o <<extra>> \o SubSeq(evs, i + 1, Len(evs))]

\* C10: a keydown added anywhere between the first and the last keydown of the
\* buffer, which keeps the span, never lowers the typing speed.
C10_TypingSpeedMonotone ==
    Cardinality(DownAt) >= 2 =>
       \A i \in FirstDown .. (LastDown - 1) :
          calculateTypingSpeed(WithKeyDownAfter(i))
            >= calculateTypingSpeed(keyboardTracker)

\* a buffer with a positive speed that one more keydown inside the span raises
C10_Witness ==
    /\ Cardinality(DownAt) >= 3
    /\ calculateTypingSpeed(keyboardTracker) > 0
    /\ \E i \in FirstDown .. (LastDown - 1) :
          calculateTypingSpeed(WithKeyDownAfter(i))
            > calculateTypingSpeed(keyboardTracker)

----------------------------------------------------------------------------
(* Pointer features, over buffers of moves, clicks and scrolls at one instant *)

InitPointer ==
    Constructed("OPEN", MaxFeatureEvents)

NextPointer ==
    \/ startMonitoring
    \/ MouseInput(LineCoords)

SpecPointer == InitPointer /\ [][NextPointer]_vars

MoveEvents ==
    SelectSeq(mouseTracker.mouseEvents, IsMove)

InUnitInterval(f) ==
    0 <= f[1] /\ f[1] <= f[2] /\ f[2] > 0

\* C11: mouseRandomness is exactly 0.1 whenever the pointer buffer holds 0, 1
\* or 2 move events, whatever the number of click and scroll events in it, and
\* with 3 or more move events it is a value in [0, 1].
C11_RandomnessSentinelAndRange ==
    /\ Len(MoveEvents) < 3 => calculateMouseRandomness(mouseTracker) = <<1, 10>>
    /\ Len(MoveEvents) >= 3 => InUnitInterval(calculateMouseRandomness(mouseTracker))

\* the buffer holds two moves, a click and a scroll
C11_Witness ==
    /\ Len(mouseTracker.mouseEvents) = 4
    /\ Len(MoveEvents) = 2
    /\ \E i \in 1 .. 4 : mouseTracker.mouseEvents[i].eventType = "click"
    /\ \E i \in 1 .. 4 : mouseTracker.mouseEvents[i].eventType = "scroll"

\* 10 * (population variance of the angles), as E[a^2] - E[a]^2, capped at 1
ScaledPopulationVariance(angles) ==
    LET n == Len(angles)
        sumOfSquares == SumSeq([k \in 1 .. n |-> angles[k] * angles[k]])
        sum == SumSeq(angles)
        num == n * sumOfSquares - sum * sum
        den == n * n * ((AngleDen * AngleDen) \div 10)
    IN  IF num >= den THEN <<1, 1>> ELSE Fraction(num, den)

\* every move advances along one line in one direction
StraightRun(moveEvents) ==
    \A j \in 3 .. Len(moveEvents) :
        LET d1 == Displacement(moveEvents, j - 1)
            d2 == Displacement(moveEvents, j)
        IN  /\ d1[1] * d2[2] - d1[2] * d2[1] = 0
            /\ DotProduct(d1, d2) > 0

\* C12: with three or more moves advancing along one straight line in one
\* direction mouseRandomness is 0; in general, with at least one triple of
\* moves whose two displacement vectors are not zero-length, it is
\* min(population variance of the turning angles * 10, 1), the triples with a
\* zero-length displacement vector being skipped.
C12_RandomnessIsScaledAngleVariance ==
    LET angles == AngleChanges(MoveEvents)
        randomness == calculateMouseRandomness(mouseTracker)
    IN  /\ (Len(MoveEvents) >= 3 /\ StraightRun(MoveEvents)) => randomness = <<0, 1>>
        /\ (Len(MoveEvents) >= 3 /\ Len(angles) >= 1) =>
              randomness = ScaledPopulationVariance(angles)
        /\ Len(angles) = Cardinality({ j \in 3 .. Len(MoveEvents) :
                                         /\ Displacement(MoveEvents, j - 1) # <<0, 0>>
                                         /\ Displacement(MoveEvents, j) # <<0, 0>> })

\* the moves (0,0), (10,0), (20,0) have been recorded in this order
C12_Witness ==
    /\ Len(MoveEvents) = 3
    /\ <<MoveEvents[1].x, MoveEvents[1].y>> = <<0, 0>>
    /\ <<MoveEvents[2].x, MoveEvents[2].y>> = <<10, 0>>
    /\ <<MoveEvents[3].x, MoveEvents[3].y>> = <<20, 0>>
    /\ calculateMouseRandomness(mouseTracker) = <<0, 1>>

----------------------------------------------------------------------------
(* Keyboard features, over buffers of key presses and releases *)

InitKeys ==
    Constructed("OPEN", MaxFeatureEvents)

NextKeys ==
    \/ startMonitoring
    \/ pauseMonitoring
    \/ KeyboardInput(KeyInputs)

SpecKeys == InitKeys /\ [][NextKeys]_vars

\* C13: backspaceRatio is backspaceCount / max(totalKeyPresses, 1), taken from
\* the two running counters alone (the buffer's content does not enter it); it
\* is 0 when no key has been pressed and never exceeds 1.
C13_BackspaceRatioFromCounters ==
    LET ratio == KeyboardGetStats(keyboardTracker).backspaceRatio
        presses == keyboardTracker.totalKeyPresses
        backspaces == keyboardTracker.backspaceCount
    IN  /\ ratio[1] * (IF presses > 1 THEN presses ELSE 1) = backspaces * ratio[2]
        /\ presses = 0 => ratio = <<0, 1>>
        /\ ratio[1] <= ratio[2]
        /\ KeyboardGetStats([keyboardTracker EXCEPT !.keyEvents = <<>>]).backspaceRatio
              = ratio
        /\ keyboardTracker.keyEvents # <<>> =>
              KeyboardGetStats([keyboardTracker EXCEPT !.keyEvents = Tail(@)]).backspaceRatio
                = ratio

\* two presses, one of them Backspace, and a release are in the buffer
C13_Witness ==
    /\ keyboardTracker.totalKeyPresses = 2
    /\ keyboardTracker.backspaceCount = 1
    /\ Len(keyboardTracker.keyEvents) = 3
    /\ KeyboardGetStats(keyboardTracker).backspaceRatio = <<1, 2>>

\* C14 as stated: in every reachable state keyPressVarianceProxy equals
\* backspaceRatio * 0.3, the state with a single Backspace keydown included.
C14_VarianceProxyIsScaledRatio ==
    LET stats == KeyboardGetStats(keyboardTracker)
    IN  stats.keyPressVariance[1] * stats.backspaceRatio[2] * 10
          = stats.backspaceRatio[1] * 3 * stats.keyPressVariance[2]

\* C14 amended: keyPressVarianceProxy equals backspaceRatio * 0.3 in every
\* reachable state whose key buffer holds at least two events (presses and
\* releases together); while the buffer holds fewer than two events it is 0,
\* so after a single Backspace keydown it is 0 although backspaceRatio is 1.
C14_VarianceProxyNeedsTwoEvents ==
    LET stats == KeyboardGetStats(keyboardTracker)
    IN  /\ Len(keyboardTracker.keyEvents) >= 2 =>
              stats.keyPressVariance[1] * stats.backspaceRatio[2] * 10
                = stats.backspaceRatio[1] * 3 * stats.keyPressVariance[2]
        /\ Len(keyboardTracker.keyEvents) < 2 => stats.keyPressVariance = <<0, 1>>

\* a single Backspace keydown is all that has been recorded
C14_Witness ==
    /\ Len(keyboardTracker.keyEvents) = 1
    /\ keyboardTracker.keyEvents[1].key = "Backspace"
    /\ keyboardTracker.keyEvents[1].eventType = "keydown"
    /\ KeyboardGetStats(keyboardTracker).backspaceRatio = <<1, 1>>
    /\ KeyboardGetStats(keyboardTracker).keyPressVariance = <<0, 1>>

----------------------------------------------------------------------------
(* Click features, over buffers of clicks, moves and scrolls spread in time *)

InitClicks ==
    Constructed("OPEN", MaxFeatureEvents)

NextClicks ==
    \/ startMonitoring
    \/ MouseInput(ClickCoords)
    \/ \E d \in ClickTickSteps : Tick(d)

SpecClicks == InitClicks /\ [][NextClicks]_vars

\* the positions of the click events in the pointer buffer
ClickAt ==
    { i \in 1 .. Len(mouseTracker.mouseEvents) :
        mouseTracker.mouseEvents[i].eventType = "click" }

FirstClickAt ==
    CHOOSE i \in ClickAt : \A j \in ClickAt : i <= j

LastClickAt ==
    CHOOSE i \in ClickAt : \A j \in ClickAt : j <= i

ClickTime(i) ==
    mouseTracker.mouseEvents[i].timestamp.sec * 1000
      + mouseTracker.mouseEvents[i].timestamp.ms

\* C15: click frequency comes from the click events in the buffer: it is 0 when
\* the buffer holds fewer than two clicks or the first and the last click carry
\* the same timestamp, and otherwise the number of buffered clicks divided by
\* the seconds between the first and the last click.
C15_ClickFrequencyFormula ==
    LET frequency == MouseGetStats(mouseTracker).clickFrequency
    IN  IF Cardinality(ClickAt) < 2 THEN frequency = <<0, 1>>
        ELSE IF ClickTime(FirstClickAt) = ClickTime(LastClickAt) THEN frequency = <<0, 1>>
        ELSE frequency[1] * (ClickTime(LastClickAt) - ClickTime(FirstClickAt))
               = Cardinality(ClickAt) * 1000 * frequency[2]

\* two clicks 800 ms apart with another event recorded between them: 2.5 per second
C15_Witness ==
    /\ Cardinality(ClickAt) = 2
    /\ LastClickAt - FirstClickAt > 1
    /\ ClickTime(LastClickAt) - ClickTime(FirstClickAt) = 800
    /\ MouseGetStats(mouseTracker).clickFrequency = <<5, 2>>

RECURSIVE PressureTotal(_)
PressureTotal(positions) ==
    IF positions = {} THEN 0
    ELSE LET i == CHOOSE j \in positions : TRUE
         IN  mouseTracker.mouseEvents[i].pressure + PressureTotal(positions \ {i})

\* C16: average pressure is 1.0 while the buffer holds no click and otherwise
\* the arithmetic mean of the pressures of the buffered clicks; a move, a
\* scroll or a release never changes it.
C16_AveragePressureIsClickMean ==
    /\ [](LET average == MouseGetStats(mouseTracker).averagePressure
          IN  IF ClickAt = {} THEN average = <<1, 1>>
              ELSE average[1] * Cardinality(ClickAt) * PressureDen
                     = PressureTotal(ClickAt) * average[2])
    /\ [][ ( \/ \E p \in ClickCoords : MouseMove(p)
             \/ \E c \in ClickInputs : MouseUp(c)
             \/ \E w \in WheelInputs : Wheel(w) )
           => calculateAveragePressure(mouseTracker')
                = calculateAveragePressure(mouseTracker) ]_vars

\* two clicks of different pressure, a move and a scroll are in the buffer
C16_Witness ==
    /\ Cardinality(ClickAt) = 2
    /\ mouseTracker.mouseEvents[FirstClickAt].pressure
         # mouseTracker.mouseEvents[LastClickAt].pressure
    /\ \E i \in 1 .. Len(mouseTracker.mouseEvents) :
          mouseTracker.mouseEvents[i].eventType = "move"
    /\ \E i \in 1 .. Len(mouseTracker.mouseEvents) :
          mouseTracker.mouseEvents[i].eventType = "scroll"

----------------------------------------------------------------------------
(* Predictions and the clicks recorded after them *)

InitFeedback ==
    Constructed("OPEN", MaxFeatureEvents)

NextFeedback ==
    \/ startMonitoring
    \/ resetSession
    \/ \E c \in ClickInputs, r \in RandomDraws : MouseDown(c, r)
    \/ \E data \in MessageInputs : WsMessage(data)

SpecFeedback == InitFeedback /\ [][NextFeedback]_vars

\* the level_index of the most recent prediction received, 0 before the first:
\* the history chart holds the levels of the predictions in arrival order
LastPredictedLevel ==
    IF visualization.historyData = <<>> THEN 0
    ELSE visualization.historyData[Len(visualization.historyData)]

\* C17: every click recorded while Active carries pressure 0.8 + r * v with r in
\* [0, 1) the random draw and v = 0.1 + (L / 4) * 0.3, L being the level_index
\* of the most recent prediction received before the click and 0 if there was
\* none; so every buffered click has a pressure in [0.8, 1.2) and v is in
\* [0.1, 0.4].
C17_ClickPressureFollowsLastLevel ==
    /\ [](\A i \in 1 .. Len(mouseTracker.mouseEvents) :
            mouseTracker.mouseEvents[i].eventType = "click" =>
               /\ 8 * PressureDen <= 10 * mouseTracker.mouseEvents[i].pressure
               /\ 10 * mouseTracker.mouseEvents[i].pressure < 12 * PressureDen)
    /\ [][ \A c \in ClickInputs, r \in RandomDraws :
             (MouseDown(c, r) /\ mouseTracker.isTracking) =>
                LET L == LastPredictedLevel
                    v == mouseTracker'.pressureVariation
                    click == mouseTracker'.mouseEvents[Len(mouseTracker'.mouseEvents)]
                IN  /\ click.eventType = "click"
                    \* v = 0.1 + (L / 4) * 0.3
                    /\ 40 * v = VarDen * (4 + 3 * L)
                    /\ VarDen <= 10 * v /\ 10 * v <= 4 * VarDen
                    \* pressure = 0.8 + (r / RandDen) * v
                    /\ 10 * RandDen * click.pressure
                         = 8 * RandDen * PressureDen + 10 * r * (PressureDen \div VarDen) * v
         ]_vars

\* a click has just been recorded after a prediction of level 4, above 0.8
C17_Witness ==
    /\ lastOp = "mousedown"
    /\ LastPredictedLevel = 4
    /\ mouseTracker.mouseEvents # <<>>
    /\ mouseTracker.pressureVariation = 16
    /\ mouseTracker.mouseEvents[Len(mouseTracker.mouseEvents)].pressure
         = 32 * RandDen + 16

\* C18: the last known stress level is 0 until a prediction arrives and after
\* each message of type 'prediction' it is that message's level_index; a
\* message of another type leaves it; the level and the confidence of a
\* prediction reach the gauge and the history record as they came.
C18_LevelFollowsPredictions ==
    /\ [](app.currentStressLevel = LastPredictedLevel)
    /\ [][ \A data \in MessageInputs :
             WsMessage(data) =>
                IF data.type = "prediction"
                  THEN /\ app'.currentStressLevel = data.prediction.level_index
                       /\ app'.stressConfidence = data.prediction.confidence
                       /\ visualization'.gauge[1] * MaxLevel
                            = data.prediction.level_index * visualization'.gauge[2]
                       /\ visualization'.historyData[Len(visualization'.historyData)]
                            = data.prediction.level_index
                       /\ [visualization' EXCEPT !.stressScore = 0]
                            = [addStressRecord(
                                 updateStressGauge(visualization,
                                                   data.prediction.level_index,
                                                   data.prediction.confidence),
                                 data.prediction.level_index,
                                 data.prediction.confidence)
                                 EXCEPT !.stressScore = 0]
                  ELSE UNCHANGED <<app, visualization>>
         ]_vars

\* predictions of level 1 and then 3 have arrived
C18_Witness ==
    /\ visualization.historyData = <<1, 3>>
    /\ app.currentStressLevel = 3
    /\ visualization.gauge = <<3, 4>>
    /\ Len(visualization.historyList) = 2

----------------------------------------------------------------------------
(* Two runs fed the same inputs and different predictions *)

InitTwin ==
    Constructed("OPEN", MaxEvents)

NextTwin ==
    \/ startMonitoring
    \/ \E k \in TypingKeyInputs : KeyDown(k)
    \/ \E p \in ClickCoords : MouseMove(p)
    \/ \E c \in ClickInputs, r \in RandomDraws : MouseDown(c, r)
    \/ \E data \in MessageInputs : WsMessage(data)
    \/ \E data \in MessageInputs : TwinMessage(data)

SpecTwin == InitTwin /\ [][NextTwin]_vars

KeyboardCounters(kt) ==
    <<kt.totalKeyPresses, kt.backspaceCount>>

MouseCounters(mt) ==
    <<mt.clickCount, mt.totalDistance>>

\* a pointer buffer with the pressure of its clicks blanked
WithoutPressure(mouseEvents) ==
    [i \in 1 .. Len(mouseEvents) |->
       IF mouseEvents[i].eventType = "click"
         THEN [mouseEvents[i] EXCEPT !.pressure = 0]
         ELSE mouseEvents[i]]

\* C19 as stated: predictions do not feed back into extraction: the run and
\* the second run, which differ in their predictions only, hold identical
\* buffers, counters and feature values.
C19_PredictionsDoNotFeedBack ==
    /\ twin.keyboardTracker.keyEvents = keyboardTracker.keyEvents
    /\ twin.mouseTracker.mouseEvents = mouseTracker.mouseEvents
    /\ KeyboardCounters(twin.keyboardTracker) = KeyboardCounters(keyboardTracker)
    /\ MouseCounters(twin.mouseTracker) = MouseCounters(mouseTracker)
    /\ KeyboardGetStats(twin.keyboardTracker) = KeyboardGetStats(keyboardTracker)
    /\ MouseGetStats(twin.mouseTracker) = MouseGetStats(mouseTracker)

\* C19 amended: predictions feed back into extraction through the click
\* pressure only: two runs that receive the same input events, lifecycle calls
\* and random draws but different predictions hold identical key buffers,
\* pointer buffers identical up to the pressure of their clicks, identical
\* running counters and identical typing speed, key-press variance proxy,
\* backspace ratio, mouse randomness, click frequency, total distance, move
\* count and click count; the pressure of a click, and with it the average
\* pressure, follows the last prediction its run received before the click,
\* and the last click has the same pressure in both runs when that prediction
\* gave both the same pressure variation.
C19_PredictionsReachClickPressureOnly ==
    /\ twin.keyboardTracker = keyboardTracker
    /\ WithoutPressure(twin.mouseTracker.mouseEvents)
         = WithoutPressure(mouseTracker.mouseEvents)
    /\ MouseCounters(twin.mouseTracker) = MouseCounters(mouseTracker)
    /\ KeyboardGetStats(twin.keyboardTracker) = KeyboardGetStats(keyboardTracker)
    /\ [MouseGetStats(twin.mouseTracker) EXCEPT !.averagePressure = <<1, 1>>]
         = [MouseGetStats(mouseTracker) EXCEPT !.averagePressure = <<1, 1>>]
    /\ twin.mouseTracker.pressureVariation = mouseTracker.pressureVariation =>
         twin.mouseTracker.simulatedPressure = mouseTracker.simulatedPressure

\* the same click has been recorded in both runs, after a prediction of level 4
\* in one and none in the other: the average pressures differ
C19_Witness ==
    /\ lastOp = "mousedown"
    /\ app.currentStressLevel = 4
    /\ twin.currentStressLevel = 0
    /\ Len(mouseTracker.mouseEvents) = 1
    /\ MouseGetStats(mouseTracker).averagePressure
         # MouseGetStats(twin.mouseTracker).averagePressure
    /\ MouseGetStats(mouseTracker).totalClicks
         = MouseGetStats(twin.mouseTracker).totalClicks

----------------------------------------------------------------------------
(* getStats() between the handlers *)

InitStats ==
    Constructed("OPEN", MaxEvents)

NextStats ==
    \/ startMonitoring
    \/ pauseMonitoring
    \/ KeyboardInput(TypingKeyInputs)
    \/ MouseInput(ClickCoords)
    \/ \E d \in TickSteps : Tick(d)
    \/ GetStats

SpecStats == InitStats /\ [][NextStats]_vars

\* C20: getStats is a pure, idempotent read: a call changes no buffer, counter,
\* last-position or timestamp field or tracking flag of either tracker, and as
\* long as no event or lifecycle call has followed a call, calling again
\* returns the values that call returned.
C20_GetStatsIsPureRead ==
    /\ [][GetStats => UNCHANGED <<keyboardTracker, mouseTracker>>]_vars
    /\ [](lastOp = "getStats" =>
            snapshot = [keyboard |-> KeyboardGetStats(keyboardTracker),
                        mouse |-> MouseGetStats(mouseTracker)])

\* getStats has returned the features of a key press and a move, and time has
\* passed since
C20_Witness ==
    /\ lastOp = "getStats"
    /\ now > 0
    /\ snapshot.keyboard.totalKeyPresses = 1
    /\ snapshot.mouse.moveCount = 1
    /\ Len(keyboardTracker.keyEvents) = 1
    /\ Len(mouseTracker.mouseEvents) = 1

----------------------------------------------------------------------------
(* Recording and the state of the classifier channel, under SpecSession *)

\* C21: whatever the state of the channel, an event delivered to a tracking
\* tracker is appended to its buffer, the counters are updated and the handler
\* runs to its end, display update included (for a move: the heatmap point is
\* added); the event is just not forwarded when the channel is not open.
C21_ChannelNeverBlocksHandler ==
    [][ /\ \A k \in KeyInputs :
             (KeyDown(k) /\ keyboardTracker.isTracking) =>
                /\ keyboardTracker'.keyEvents
                     = Append(keyboardTracker.keyEvents, KeyDownData(k))
                /\ keyboardTracker'.totalKeyPresses
                     = keyboardTracker.totalKeyPresses + 1
        /\ \A p \in Coords :
             (MouseMove(p) /\ mouseTracker.isTracking) =>
                /\ Len(mouseTracker'.mouseEvents) = Len(mouseTracker.mouseEvents) + 1
                /\ mouseTracker'.lastMousePosition = p
                /\ visualization' = addMousePoint(visualization, p[1], p[2])
        /\ app.ws # "OPEN" => sent' = sent
      ]_vars

----------------------------------------------------------------------------
(* The classifier channel across disconnects and reconnects: the session
   calls, the listeners and the socket's own events *)

InitChannel ==
    Constructed("CONNECTING", MaxEvents)

NextChannel ==
    \/ startMonitoring
    \/ pauseMonitoring
    \/ KeyboardInput(TypingKeyInputs)
    \/ MouseInput(ClickCoords)
    \/ Socket

SpecChannel == InitChannel /\ [][NextChannel]_vars

Delivered(data) ==
    sent' = Append(sent, data)

\* C22: the channel receives something only in the step of a listener that
\* accepts an event while the session is Active and the socket is open, and
\* what it receives is that one event, once, after everything sent before;
\* socket events (open, close, reconnect) and session calls send nothing, so
\* nothing is sent again and nothing produced while Idle or Paused is sent.
C22_DeliveryAtMostOnceWhileActive ==
    [][ sent' # sent =>
          /\ sessionState = "Active"
          /\ app.ws = "OPEN"
          /\ accepted' = accepted + 1
          /\ \/ \E k \in TypingKeyInputs :
                  /\ KeyDown(k) /\ keyboardTracker.isTracking
                  /\ Delivered(KeyDownData(k))
             \/ \E k \in TypingKeyInputs :
                  /\ KeyUp(k) /\ keyboardTracker.isTracking
                  /\ Delivered(KeyUpData(k))
             \/ \E q \in ClickCoords :
                  /\ MouseMove(q) /\ mouseTracker.isTracking
                  /\ Delivered(MovementData(q))
             \/ \E c \in ClickInputs, r \in RandomDraws :
                  /\ MouseDown(c, r) /\ mouseTracker.isTracking
                  /\ Delivered(ClickData(c, mouseTracker'.simulatedPressure))
             \/ \E c \in ClickInputs :
                  /\ MouseUp(c) /\ mouseTracker.isTracking
                  /\ Delivered(ReleaseData(c))
             \/ \E w \in WheelInputs :
                  /\ Wheel(w) /\ mouseTracker.isTracking
                  /\ Delivered(WheelData(w))
      ]_vars

\* a key press was forwarded, the socket closed, the release that followed
\* was recorded but not forwarded, and the socket has reconnected and opened
\* without the release being sent
C22_Witness ==
    /\ Len(keyboardTracker.keyEvents) = 2
    /\ keyboardTracker.keyEvents[1].eventType = "keydown"
    /\ keyboardTracker.keyEvents[2].eventType = "keyup"
    /\ Len(sent) = 1
    /\ sent[1].eventType = "keydown"
    /\ app.ws = "OPEN"
    /\ reconnectTimers = 0

----------------------------------------------------------------------------
(* The buffers over time: the session calls and the listeners of both
   trackers, with the clock advancing between events *)

InitOrder ==
    Constructed("OPEN", MaxEvents)

NextOrder ==
    \/ startMonitoring
    \/ pauseMonitoring
    \/ resetSession
    \/ KeyboardInput(TypingKeyInputs)
    \/ MouseInput(ClickCoords)
    \/ \E d \in ClickTickSteps : Tick(d)

SpecOrder == InitOrder /\ [][NextOrder]_vars

TimeOrdered(events) ==
    \A i, j \in 1..Len(events) :
        i <= j => ParseDate(events[i].timestamp) <= ParseDate(events[j].timestamp)

\* C23: in every reachable state the events of the keyboard buffer and those
\* of the pointer buffer are in non-decreasing timestamp order (and none is
\* later than the clock), the events being delivered one at a time on a clock
\* that never goes back.
C23_BuffersInTimestampOrder ==
    /\ TimeOrdered(keyboardTracker.keyEvents)
    /\ TimeOrdered(mouseTracker.mouseEvents)
    /\ \A i \in 1..Len(keyboardTracker.keyEvents) :
          ParseDate(keyboardTracker.keyEvents[i].timestamp) <= now
    /\ \A i \in 1..Len(mouseTracker.mouseEvents) :
          ParseDate(mouseTracker.mouseEvents[i].timestamp) <= now

\* a move and, later on the clock, a scroll are in the pointer buffer
C23_Witness ==
    /\ Len(mouseTracker.mouseEvents) = 2
    /\ mouseTracker.mouseEvents[1].eventType = "move"
    /\ mouseTracker.mouseEvents[2].eventType = "scroll"
    /\ ParseDate(mouseTracker.mouseEvents[1].timestamp)
         < ParseDate(mouseTracker.mouseEvents[2].timestamp)

----------------------------------------------------------------------------
(* What each listener adds to its buffer, under SpecSession *)

KeyboardEventStep ==
    \E k \in KeyInputs : KeyDown(k) \/ KeyUp(k)

PointerEventStep ==
    \/ \E p \in Coords : MouseMove(p)
    \/ \E c \in ClickInputs, r \in RandomDraws : MouseDown(c, r)
    \/ \E c \in ClickInputs : MouseUp(c)
    \/ \E w \in WheelInputs : Wheel(w)

\* C24: while the session is Active every key down and key up adds one event
\* to the keyboard buffer and every pointer move, click, release and scroll
\* adds one event to the pointer buffer.
C24_EveryEventAppended ==
    [][ /\ (KeyboardEventStep /\ keyboardTracker.isTracking) =>
              Len(keyboardTracker'.keyEvents) = Len(keyboardTracker.keyEvents) + 1
        /\ (PointerEventStep /\ mouseTracker.isTracking) =>
              Len(mouseTracker'.mouseEvents) = Len(mouseTracker.mouseEvents) + 1
      ]_vars

\* C25: the first move recorded after a start adds nothing to the distance,
\* so totalDistance is 0 whenever the pointer buffer holds at most one move.
C25_FirstMoveAfterStartAddsNothing ==
    Len(MoveEvents) <= 1 => mouseTracker.totalDistance = 0

----------------------------------------------------------------------------
(* The trackers' flags and counters under every session call, checkbox
   toggle and listener, for each state the socket can have reached *)

InitCounters ==
    \E w \in SocketStates : Constructed(w, MaxEvents)

NextCounters ==
    \/ Lifecycle
    \/ KeyboardInput(KeyInputs)
    \/ MouseInput(ClickCoords)

SpecCounters == InitCounters /\ [][NextCounters]_vars

\* C26: after any sequence of startMonitoring, pauseMonitoring, resetSession
\* and checkbox toggles a tracker is tracking only if the application is
\* monitoring.
C26_TrackingOnlyWhileMonitoring ==
    /\ keyboardTracker.isTracking => app.isMonitoring
    /\ mouseTracker.isTracking => app.isMonitoring

\* the keyboard box has just been checked again on a paused session: the
\* tracker stays off
C26_Witness ==
    /\ lastOp = "trackKeyboard"
    /\ trackKeyboard
    /\ sessionState = "Paused"
    /\ ~app.isMonitoring
    /\ ~keyboardTracker.isTracking

CountOf(events, kinds) ==
    Cardinality({i \in 1..Len(events) : events[i].eventType \in kinds})

BackspaceDowns(events) ==
    Cardinality({i \in 1..Len(events) :
                    /\ events[i].eventType = "keydown"
                    /\ events[i].key \in {"Backspace", "Delete"}})

\* C27: in every reachable state totalKeyPresses is the number of keydown
\* events in the keyboard buffer, backspaceCount is the number of those whose
\* key is Backspace or Delete, and backspaceCount <= totalKeyPresses; a keyup
\* changes neither counter.
C27_KeyCountersMatchBuffer ==
    /\ [](/\ keyboardTracker.totalKeyPresses
               = CountOf(keyboardTracker.keyEvents, {"keydown"})
          /\ keyboardTracker.backspaceCount
               = BackspaceDowns(keyboardTracker.keyEvents)
          /\ keyboardTracker.backspaceCount <= keyboardTracker.totalKeyPresses)
    /\ [][ (\E k \in KeyInputs : KeyUp(k)) =>
              /\ keyboardTracker'.totalKeyPresses = keyboardTracker.totalKeyPresses
              /\ keyboardTracker'.backspaceCount = keyboardTracker.backspaceCount
         ]_vars

\* a Backspace press and its release have been recorded
C27_Witness ==
    /\ lastOp = "keyup"
    /\ Len(keyboardTracker.keyEvents) = 2
    /\ keyboardTracker.keyEvents[1].eventType = "keydown"
    /\ keyboardTracker.keyEvents[1].key = "Backspace"
    /\ keyboardTracker.keyEvents[2].eventType = "keyup"
    /\ keyboardTracker.totalKeyPresses = 1
    /\ keyboardTracker.backspaceCount = 1

\* C28: in every reachable state clickCount is the number of click events in
\* the pointer buffer and the moveCount that getStats reports is the number
\* of move events in it; a release or a scroll changes neither.
C28_PointerCountersMatchBuffer ==
    /\ [](/\ mouseTracker.clickCount = CountOf(mouseTracker.mouseEvents, {"click"})
          /\ MouseGetStats(mouseTracker).moveCount
               = CountOf(mouseTracker.mouseEvents, {"move"}))
    /\ [][ ((\E c \in ClickInputs : MouseUp(c)) \/ (\E w \in WheelInputs : Wheel(w))) =>
              /\ mouseTracker'.clickCount = mouseTracker.clickCount
              /\ MouseGetStats(mouseTracker').moveCount
                   = MouseGetStats(mouseTracker).moveCount
         ]_vars

\* a move is in the pointer buffer and a scroll has just been recorded after
\* it: one move is counted and no click
C28_Witness ==
    /\ lastOp = "wheel"
    /\ Len(mouseTracker.mouseEvents) = 2
    /\ mouseTracker.mouseEvents[1].eventType = "move"
    /\ mouseTracker.mouseEvents[2].eventType = "scroll"
    /\ MouseGetStats(mouseTracker).moveCount = 1
    /\ mouseTracker.clickCount = 0

----------------------------------------------------------------------------
(* Reconnection: the socket's events and the 5 s timer, which fires some time
   after it is armed, around a session that starts, records keys and pauses *)

InitReconnect ==
    Constructed("CONNECTING", MaxEvents)

NextReconnect ==
    \/ Socket
    \/ startMonitoring
    \/ pauseMonitoring
    \/ KeyboardInput(TypingKeyInputs)

SpecReconnect ==
    InitReconnect /\ [][NextReconnect]_vars /\ WF_vars(ReconnectTimer)

\* C29: whenever the socket is closed a new connection attempt follows (when
\* the timer fires), for any number of closes; a close arms exactly one timer
\* and only a close does, an error arms none, and the timer creates the new
\* socket only in place of a closed one, so at no time is more than one socket
\* connecting or open.
C29_CloseAlwaysReconnectsOnce ==
    /\ (app.ws = "CLOSED") ~> (app.ws = "CONNECTING")
    /\ [](reconnectTimers = (IF app.ws = "CLOSED" THEN 1 ELSE 0))
    /\ [][ /\ WsClose => reconnectTimers' = reconnectTimers + 1
           /\ WsError => (reconnectTimers' = reconnectTimers /\ app'.ws = app.ws)
           /\ ReconnectTimer => (app.ws = "CLOSED" /\ app'.ws = "CONNECTING")
           /\ reconnectTimers' > reconnectTimers => WsClose
         ]_vars

\* the socket had opened (a key event was forwarded), has closed since, and
\* its one reconnect timer is armed
C29_Witness ==
    /\ app.ws = "CLOSED"
    /\ reconnectTimers = 1
    /\ visualization.connectionStatus = "Not Connected"
    /\ Len(sent) = 1
    /\ accepted = 2

----------------------------------------------------------------------------
(* The stress level across a reset, under SpecFeedback *)

\* C30: resetSession leaves currentStressLevel and stressConfidence as they
\* are while it sets the displayed gauge back to level 0; so a click recorded
\* after a reset and a restart, with no prediction in between, has the
\* pressure variation 0.1 + (L / 4) * 0.3 of the level_index L received
\* before the reset.
C30_ResetKeepsLastStressLevel ==
    [][ /\ resetSession =>
              /\ app'.currentStressLevel = app.currentStressLevel
              /\ app'.stressConfidence = app.stressConfidence
              /\ visualization'.gauge = <<0, 1>>
              /\ visualization'.stressLevelText = stressLevels[1]
              /\ visualization'.stressScore = 0
        /\ \A c \in ClickInputs, r \in RandomDraws :
              (MouseDown(c, r) /\ mouseTracker.isTracking) =>
                  /\ app.currentStressLevel = LastPredictedLevel
                  /\ mouseTracker'.pressureVariation
                       = PressureVariation(LastPredictedLevel)
      ]_vars

\* a prediction of level 4 arrived, the session was reset (gauge at 0, history
\* list emptied) and restarted, and a click has just been recorded
C30_Witness ==
    /\ lastOp = "mousedown"
    /\ visualization.gauge = <<0, 1>>
    /\ visualization.historyList = <<>>
    /\ LastPredictedLevel = 4
    /\ app.currentStressLevel = 4
    /\ Len(mouseTracker.mouseEvents) = 1
    /\ mouseTracker.mouseEvents[1].eventType = "click"
    /\ mouseTracker.pressureVariation = 16

----------------------------------------------------------------------------
(* The checkbox handlers, under SpecCounters *)

\* C31: toggling one tracker's checkbox affects only that tracker: unchecking
\* it stops that tracker and keeps its data; re-checking it while monitoring
\* restarts that tracker with its buffer and counters cleared; re-checking it
\* while not monitoring changes nothing; and in every case the other tracker
\* (flag, buffer, counters) and isMonitoring are unchanged.
C31_ToggleAffectsOnlyItsTracker ==
    [][ /\ ToggleTrackKeyboard =>
              /\ mouseTracker' = mouseTracker
              /\ app'.isMonitoring = app.isMonitoring
              /\ IF trackKeyboard
                   THEN /\ ~keyboardTracker'.isTracking
                        /\ KeyboardData(keyboardTracker') = KeyboardData(keyboardTracker)
                   ELSE IF app.isMonitoring
                   THEN /\ keyboardTracker'.isTracking
                        /\ keyboardTracker'.keyEvents = <<>>
                        /\ keyboardTracker'.totalKeyPresses = 0
                        /\ keyboardTracker'.backspaceCount = 0
                   ELSE keyboardTracker' = keyboardTracker
        /\ ToggleTrackMouse =>
              /\ keyboardTracker' = keyboardTracker
              /\ app'.isMonitoring = app.isMonitoring
              /\ IF trackMouse
                   THEN /\ ~mouseTracker'.isTracking
                        /\ MouseData(mouseTracker') = MouseData(mouseTracker)
                   ELSE IF app.isMonitoring
                   THEN /\ mouseTracker'.isTracking
                        /\ mouseTracker'.mouseEvents = <<>>
                        /\ mouseTracker'.clickCount = 0
                        /\ mouseTracker'.totalDistance = 0
                   ELSE mouseTracker' = mouseTracker
      ]_vars

\* while monitoring, with a key press in the keyboard buffer and a move
\* recorded by the mouse tracker, the mouse box has just been checked again:
\* the mouse tracker runs with an empty buffer, the keyboard tracker keeps
\* its event
C31_Witness ==
    /\ lastOp = "trackMouse"
    /\ trackMouse
    /\ app.isMonitoring
    /\ mouseTracker.isTracking
    /\ mouseTracker.mouseEvents = <<>>
    /\ mouseTracker.lastMousePosition = <<3, 0>>
    /\ keyboardTracker.isTracking
    /\ Len(keyboardTracker.keyEvents) = 1
    /\ keyboardTracker.totalKeyPresses = 1

====
